---------------------------- MODULE Spec2Model ----------------------------
(***************************************************************************)
(* A model of src/perfEvents_linux.cpp (async-profiler): the event         *)
(* catalog (PerfEventType), the per-thread counter lifecycle (PerfEvents:: *)
(* createForThread / destroyForThread / start / stop) and the ring-buffer  *)
(* call-chain reader (PerfEvents::getCallChain).                           *)
(*                                                                         *)
(* Conventions.  C strings are sequences of one-character strings.  A      *)
(* pointer into AVAILABLE_EVENTS is the 1-based index of the entry, NULL   *)
(* is 0.  A file descriptor is a positive number, a mapped buffer is named *)
(* by a positive region number and a null buffer pointer is 0.  64-bit     *)
(* words are scaled to WordBits bits and the page to 2^PageShift bytes.    *)
(***************************************************************************)
EXTENDS Integers, Sequences, FiniteSets, TLC

(***************************************************************************)
(* Bounds of the model.                                                    *)
(***************************************************************************)
\* Capacity of the slot array: the value getMaxPID() reads from pid_max.
PidMax == 1
\* Number of descriptors the process may hold open (its RLIMIT_NOFILE).
MaxFds == 2
\* Threads that call getCallChain concurrently.
NumReaders == 2
\* Records the kernel publishes in one run.
MaxWrites == 2
\* Longest call chain the kernel records in one sample.
MaxNr == 2
\* Width of a machine word in the model (64 in the program).
WordBits == 16
\* sysconf(_SC_PAGESIZE) is 2^PageShift bytes (4096 on most machines).
PageShift == 6

(***************************************************************************)
(* Program constants.                                                      *)
(***************************************************************************)
NULL == 0
PERF_TYPE_HARDWARE == 0
PERF_TYPE_SOFTWARE == 1
PERF_TYPE_TRACEPOINT == 2
PERF_TYPE_HW_CACHE == 3
PERF_TYPE_BREAKPOINT == 5
HW_BREAKPOINT_R == 1
HW_BREAKPOINT_W == 2
HW_BREAKPOINT_RW == 3
HW_BREAKPOINT_X == 4
SizeofLong == 8
DEFAULT_INTERVAL == 10000000
PERF_RECORD_SAMPLE == 9
\* A record type other than PERF_RECORD_SAMPLE (PERF_RECORD_LOST).
PERF_RECORD_LOST == 2
SizeofU64 == 8
PERF_PAGE_SIZE == 2^PageShift
\* (u64)-4095 in the width of the model.
PERF_CONTEXT_MAX == 2^WordBits - 4095
\* See perf_event_open(2): id | PERF_COUNT_HW_CACHE_OP_READ << 8
\*                            | PERF_COUNT_HW_CACHE_RESULT_MISS << 16
LOAD_MISS(perf_hw_cache_id) == perf_hw_cache_id + 0 * 2^8 + 1 * 2^16

(***************************************************************************)
(* C string functions, as far as the catalog uses them.                    *)
(***************************************************************************)
Str_cpu == <<"c", "p", "u">>
Str_page_faults == <<"p", "a", "g", "e", "-", "f", "a", "u", "l", "t", "s">>
Str_context_switches == <<"c", "o", "n", "t", "e", "x", "t", "-", "s", "w", "i", "t", "c", "h", "e", "s">>
Str_cycles == <<"c", "y", "c", "l", "e", "s">>
Str_instructions == <<"i", "n", "s", "t", "r", "u", "c", "t", "i", "o", "n", "s">>
Str_cache_references == <<"c", "a", "c", "h", "e", "-", "r", "e", "f", "e", "r", "e", "n", "c", "e", "s">>
Str_cache_misses == <<"c", "a", "c", "h", "e", "-", "m", "i", "s", "s", "e", "s">>
Str_branches == <<"b", "r", "a", "n", "c", "h", "e", "s">>
Str_branch_misses == <<"b", "r", "a", "n", "c", "h", "-", "m", "i", "s", "s", "e", "s">>
Str_bus_cycles == <<"b", "u", "s", "-", "c", "y", "c", "l", "e", "s">>
Str_L1_dcache_load_misses == <<"L", "1", "-", "d", "c", "a", "c", "h", "e", "-", "l", "o", "a", "d", "-", "m", "i", "s", "s", "e", "s">>
Str_LLC_load_misses == <<"L", "L", "C", "-", "l", "o", "a", "d", "-", "m", "i", "s", "s", "e", "s">>
Str_dTLB_load_misses == <<"d", "T", "L", "B", "-", "l", "o", "a", "d", "-", "m", "i", "s", "s", "e", "s">>
Str_mem_breakpoint == <<"m", "e", "m", ":", "b", "r", "e", "a", "k", "p", "o", "i", "n", "t">>
Str_trace_tracepoint == <<"t", "r", "a", "c", "e", ":", "t", "r", "a", "c", "e", "p", "o", "i", "n", "t">>
Str_malloc == <<"m", "a", "l", "l", "o", "c">>
Str_mmap == <<"m", "m", "a", "p">>
Str_read == <<"r", "e", "a", "d">>
Str_write == <<"w", "r", "i", "t", "e">>
Str_send == <<"s", "e", "n", "d">>
Str_recv == <<"r", "e", "c", "v">>
Str_sendto == <<"s", "e", "n", "d", "t", "o">>
Str_recvfrom == <<"r", "e", "c", "v", "f", "r", "o", "m">>
Str_foo == <<"f", "o", "o">>
Str_sched_switch == <<"s", "c", "h", "e", "d", ":", "s", "c", "h", "e", "d", "_", "s", "w", "i", "t", "c", "h">>

\* The tail of s from position i on (the C pointer s + i - 1).
StrFrom(s, i) == SubSeq(s, i, Len(s))

\* strncmp(s, p, strlen(p)) == 0
strncmp0(s, p) == Len(s) >= Len(p) /\ SubSeq(s, 1, Len(p)) = p

\* strchr: the position of the first c in s, 0 when there is none.
strchr(s, c) ==
    IF \E i \in 1..Len(s) : s[i] = c
    THEN CHOOSE i \in 1..Len(s) : s[i] = c /\ \A j \in 1..(i - 1) : s[j] # c
    ELSE 0

\* strrchr: the position of the last c in s, 0 when there is none.
strrchr(s, c) ==
    IF \E i \in 1..Len(s) : s[i] = c
    THEN CHOOSE i \in 1..Len(s) : s[i] = c /\ \A j \in (i + 1)..Len(s) : s[j] # c
    ELSE 0

HexDigits == <<"0", "1", "2", "3", "4", "5", "6", "7", "8", "9",
               "a", "b", "c", "d", "e", "f">>

\* The value of digit c in the given base, -1 when c is no digit of it.
DigitVal(c, base) ==
    LET lc == CASE c = "A" -> "a" [] c = "B" -> "b" [] c = "C" -> "c"
                [] c = "D" -> "d" [] c = "E" -> "e" [] c = "F" -> "f"
                [] OTHER -> c
    IN IF \E i \in 1..base : HexDigits[i] = lc
       THEN (CHOOSE i \in 1..base : HexDigits[i] = lc) - 1
       ELSE -1

\* The number spelled by the longest prefix of s made of digits of the base.
RECURSIVE ParseDigits(_, _, _)
ParseDigits(s, base, acc) ==
    IF s = <<>> \/ DigitVal(Head(s), base) < 0
    THEN acc
    ELSE ParseDigits(Tail(s), base, acc * base + DigitVal(Head(s), base))

RECURSIVE SkipSpaces(_)
SkipSpaces(s) == IF s # <<>> /\ Head(s) = " " THEN SkipSpaces(Tail(s)) ELSE s

\* strtol(s, NULL, base) for base 10, 16, or 0 (the prefix picks the base).
strtol(s, base) ==
    LET t == SkipSpaces(s)
        neg == t # <<>> /\ Head(t) = "-"
        u == IF t # <<>> /\ Head(t) \in {"-", "+"} THEN Tail(t) ELSE t
        hex == Len(u) >= 2 /\ u[1] = "0" /\ u[2] \in {"x", "X"}
                 /\ Len(u) >= 3 /\ DigitVal(u[3], 16) >= 0
        b == IF base # 0 THEN base
             ELSE IF hex THEN 16
             ELSE IF u # <<>> /\ Head(u) = "0" THEN 8 ELSE 10
        digits == IF hex /\ b = 16 THEN StrFrom(u, 3) ELSE u
        v == ParseDigits(digits, b, 0)
    IN IF neg THEN 0 - v ELSE v

atoi(s) == strtol(s, 10)

(***************************************************************************)
(* The environment the catalog reads.                                      *)
(***************************************************************************)
\* dlsym(RTLD_DEFAULT, sym): the address of a symbol the process exports.
dlsym(sym) ==
    CASE sym = Str_foo -> 4096
      [] sym = Str_malloc -> 8192
      [] sym = Str_read -> 12288
      [] OTHER -> 0

\* /sys/kernel/debug/tracing/events/<subsystem>/<event>/id
DebugfsId(path) ==
    IF path = <<"s", "c", "h", "e", "d", "/", "s", "c", "h", "e", "d", "_", "s", "w", "i", "t", "c", "h">>
    THEN 310 ELSE 0

\* Get perf_event_attr.config numeric value of the given tracepoint name
findTracepointId(name) ==
    LET colon == strchr(name, ":")
        path == [i \in 1..Len(name) |-> IF i = colon THEN "/" ELSE name[i]]
    IN DebugfsId(path)

(***************************************************************************)
(* PerfEventType                                                           *)
(***************************************************************************)
Event(name, default_interval, precise_ip, type, config) ==
    [name |-> name, default_interval |-> default_interval,
     precise_ip |-> precise_ip, type |-> type, config |-> config,
     bp_type |-> 0, bp_len |-> 0, counter_arg |-> 0]

\* A null name pointer: no C string is equal to it.
NullName == <<"NULL">>

\* The table as the loader initialises it; the last entry is {NULL}.
InitialEvents == <<
    Event(Str_cpu, DEFAULT_INTERVAL, 2, PERF_TYPE_SOFTWARE, 0),
    Event(Str_page_faults, 1, 2, PERF_TYPE_SOFTWARE, 2),
    Event(Str_context_switches, 1, 2, PERF_TYPE_SOFTWARE, 3),
    Event(Str_cycles, 1000000, 2, PERF_TYPE_HARDWARE, 0),
    Event(Str_instructions, 1000000, 2, PERF_TYPE_HARDWARE, 1),
    Event(Str_cache_references, 1000000, 0, PERF_TYPE_HARDWARE, 2),
    Event(Str_cache_misses, 1000, 0, PERF_TYPE_HARDWARE, 3),
    Event(Str_branches, 1000000, 2, PERF_TYPE_HARDWARE, 4),
    Event(Str_branch_misses, 1000, 2, PERF_TYPE_HARDWARE, 5),
    Event(Str_bus_cycles, 1000000, 0, PERF_TYPE_HARDWARE, 6),
    Event(Str_L1_dcache_load_misses, 1000000, 0, PERF_TYPE_HW_CACHE, LOAD_MISS(0)),
    Event(Str_LLC_load_misses, 1000, 0, PERF_TYPE_HW_CACHE, LOAD_MISS(2)),
    Event(Str_dTLB_load_misses, 1000, 0, PERF_TYPE_HW_CACHE, LOAD_MISS(3)),
    Event(Str_mem_breakpoint, 1, 0, PERF_TYPE_BREAKPOINT, 0),
    Event(Str_trace_tracepoint, 1, 0, PERF_TYPE_TRACEPOINT, 0),
    Event(NullName, 0, 0, 0, 0) >>

\* The fields of an entry the program writes after start-up; name,
\* default_interval, precise_ip and type are never assigned.
Written(e) == [config |-> e.config, bp_type |-> e.bp_type,
               bp_len |-> e.bp_len, counter_arg |-> e.counter_arg]

\* Entry i of the table whose written fields are tab[i].
Entry(tab, i) ==
    [name |-> InitialEvents[i].name,
     default_interval |-> InitialEvents[i].default_interval,
     precise_ip |-> InitialEvents[i].precise_ip,
     type |-> InitialEvents[i].type,
     config |-> tab[i].config, bp_type |-> tab[i].bp_type,
     bp_len |-> tab[i].bp_len, counter_arg |-> tab[i].counter_arg]

\* The table before the first start().
InitialTable == [i \in 1..Len(InitialEvents) |-> Written(InitialEvents[i])]

KNOWN_FUNCTIONS == <<
    [name |-> Str_malloc, counter_arg |-> 1],
    [name |-> Str_mmap, counter_arg |-> 2],
    [name |-> Str_read, counter_arg |-> 3],
    [name |-> Str_write, counter_arg |-> 3],
    [name |-> Str_send, counter_arg |-> 3],
    [name |-> Str_recv, counter_arg |-> 3],
    [name |-> Str_sendto, counter_arg |-> 3],
    [name |-> Str_recvfrom, counter_arg |-> 3] >>

\* Find which argument of a known function serves as a profiling counter
findCounterArg(name) ==
    IF \E i \in 1..Len(KNOWN_FUNCTIONS) : KNOWN_FUNCTIONS[i].name = name
    THEN KNOWN_FUNCTIONS[CHOOSE i \in 1..Len(KNOWN_FUNCTIONS) :
                             /\ KNOWN_FUNCTIONS[i].name = name
                             /\ \A j \in 1..(i - 1) : KNOWN_FUNCTIONS[j].name # name].counter_arg
    ELSE 0

\* The first entry of the table with the given type.
findByType(tab, type) ==
    CHOOSE i \in 1..Len(tab) :
        Entry(tab, i).type = type /\ \A j \in 1..(i - 1) : Entry(tab, j).type # type

\* an execution breakpoint takes the width of a pointer whatever length is given
getBreakpointLenLast(tab, name, bp_type0, bp_len0) ==
    LET c1 == strrchr(name, ":")
        acc == StrFrom(name, c1 + 1)
        buf1 == IF c1 # 0 THEN SubSeq(name, 1, c1 - 1) ELSE name
        bp_type == IF c1 = 0 THEN bp_type0
                   ELSE IF acc = <<"r">> THEN HW_BREAKPOINT_R
                   ELSE IF acc = <<"w">> THEN HW_BREAKPOINT_W
                   ELSE IF acc = <<"x">> THEN HW_BREAKPOINT_X
                   ELSE HW_BREAKPOINT_RW
        c2 == strrchr(buf1, "/")
        bp_len1 == IF c2 # 0 THEN strtol(StrFrom(buf1, c2 + 1), 0) ELSE bp_len0
        buf2 == IF c2 # 0 THEN SubSeq(buf1, 1, c2 - 1) ELSE buf1
        bp_len == IF c1 # 0 /\ acc = <<"x">> THEN SizeofLong ELSE bp_len1
        c3 == strrchr(buf2, "+")
        buf == IF c3 # 0 THEN SubSeq(buf2, 1, c3 - 1) ELSE buf2
        offset == IF c3 # 0 THEN strtol(StrFrom(buf2, c3 + 1), 0) ELSE 0
        addr == IF strncmp0(buf, <<"0", "x">>) THEN strtol(buf, 0) ELSE dlsym(buf)
        bp == findByType(tab, PERF_TYPE_BREAKPOINT)
    IN IF addr = 0 /\ ~strncmp0(buf, <<"0", "x">>)
       THEN [ptr |-> NULL, tab |-> tab]
       ELSE [ptr |-> bp,
             tab |-> [tab EXCEPT ![bp].config = addr + offset,
                                 ![bp].bp_type = bp_type,
                                 ![bp].bp_len = bp_len,
                                 ![bp].counter_arg =
                                     IF bp_type = HW_BREAKPOINT_X
                                     THEN findCounterArg(buf) ELSE 0]]

\* Breakpoint format: func[+offset][/len][:rwx].  The result is the pointer
\* returned and the table as getBreakpoint leaves it.
getBreakpoint(tab, name, bp_type0, bp_len0) ==
    LET c1 == strrchr(name, ":")
        acc == StrFrom(name, c1 + 1)
        buf1 == IF c1 # 0 THEN SubSeq(name, 1, c1 - 1) ELSE name
        bp_type == IF c1 = 0 THEN bp_type0
                   ELSE IF acc = <<"r">> THEN HW_BREAKPOINT_R
                   ELSE IF acc = <<"w">> THEN HW_BREAKPOINT_W
                   ELSE IF acc = <<"x">> THEN HW_BREAKPOINT_X
                   ELSE HW_BREAKPOINT_RW
        bp_len1 == IF c1 # 0 /\ acc = <<"x">> THEN SizeofLong ELSE bp_len0
        c2 == strrchr(buf1, "/")
        buf2 == IF c2 # 0 THEN SubSeq(buf1, 1, c2 - 1) ELSE buf1
        bp_len == IF c2 # 0 THEN strtol(StrFrom(buf1, c2 + 1), 0) ELSE bp_len1
        c3 == strrchr(buf2, "+")
        buf == IF c3 # 0 THEN SubSeq(buf2, 1, c3 - 1) ELSE buf2
        offset == IF c3 # 0 THEN strtol(StrFrom(buf2, c3 + 1), 0) ELSE 0
        addr == IF strncmp0(buf, <<"0", "x">>) THEN strtol(buf, 0) ELSE dlsym(buf)
        bp == findByType(tab, PERF_TYPE_BREAKPOINT)
    IN IF addr = 0 /\ ~strncmp0(buf, <<"0", "x">>)
       THEN [ptr |-> NULL, tab |-> tab]
       ELSE [ptr |-> bp,
             tab |-> [tab EXCEPT ![bp].config = addr + offset,
                                 ![bp].bp_type = bp_type,
                                 ![bp].bp_len = bp_len,
                                 ![bp].counter_arg =
                                     IF bp_type = HW_BREAKPOINT_X
                                     THEN findCounterArg(buf) ELSE 0]]

getTracepoint(tab, tracepoint_id) ==
    LET tp == findByType(tab, PERF_TYPE_TRACEPOINT)
    IN [ptr |-> tp, tab |-> [tab EXCEPT ![tp].config = tracepoint_id]]

\* The entries before the {NULL} terminator whose name is the given one.
NamedEntries(tab, name) ==
    {i \in 1..Len(tab) : /\ Entry(tab, i).name = name
                         /\ \A j \in 1..i : Entry(tab, j).name # NullName}

forName(tab, name) ==
    IF strncmp0(name, <<"m", "e", "m", ":">>)
    THEN \* Hardware breakpoint
         getBreakpoint(tab, StrFrom(name, 5), HW_BREAKPOINT_RW, 1)
    ELSE IF strncmp0(name, <<"t", "r", "a", "c", "e", ":">>)
    THEN \* Raw tracepoint ID
         LET tracepoint_id == atoi(StrFrom(name, 7))
         IN IF tracepoint_id > 0 THEN getTracepoint(tab, tracepoint_id)
            ELSE [ptr |-> NULL, tab |-> tab]
    ELSE IF NamedEntries(tab, name) # {}
    THEN \* Look through the table of predefined perf events
         [ptr |-> CHOOSE i \in NamedEntries(tab, name) :
                      \A j \in NamedEntries(tab, name) : i <= j,
          tab |-> tab]
    ELSE IF strchr(name, ":") # 0 /\ findTracepointId(name) > 0
    THEN \* Kernel tracepoints defined in debugfs
         getTracepoint(tab, findTracepointId(name))
    ELSE \* Finally, treat event as a function name
         getBreakpoint(tab, name, HW_BREAKPOINT_X, SizeofLong)

(***************************************************************************)
(* State.                                                                  *)
(***************************************************************************)
VARIABLES
    \* PerfEventType::AVAILABLE_EVENTS and the statics of PerfEvents
    AVAILABLE_EVENTS, _event_type, _interval, _max_events, _events,
    \* the kernel: open counters, enabled counters, mapped regions and
    \* their contents
    openFds, enabled, mapped, pages,
    \* SIGPROF disposition and the JVMTI thread notifications
    sigHandler, notif,
    \* the control thread inside start(): position, directory entries left
    \* to read, createForAllThreads' success, and start's last result
    pc, todo, success, startRet,
    \* the last operation, the system calls and slot accesses it made
    \* (its arguments and its calls are recorded when traced), and whether
    \* the process has crashed
    traced, lastOp, calls, fault,
    \* history of the running start(): the directory listing and, in the
    \* order of the calls, each thread createForThread was called for with
    \* whether the kernel opened its counter; and the descriptor of the
    \* session in progress
    listing, enumLog, active,
    \* the threads inside getCallChain and their locals, the thread inside
    \* destroyForThread when it is followed step by step, the number of
    \* records the kernel has published, and whether a reader has used a
    \* buffer pointer after the region was unmapped
    rd, destroyer, kwrites, dangling,
    \* the invocation of signalHandler in flight or the last one: position,
    \* siginfo, the counter value, the calls it made, and whether it made
    \* one on a handle that was closed
    sig

progVars == <<AVAILABLE_EVENTS, _event_type, _interval, _max_events, _events>>
kernVars == <<openFds, enabled, mapped, pages>>
startVars == <<pc, todo, success, startRet>>
enumVars == <<listing, enumLog>>
histVars == <<enumVars, active>>
raceVars == <<rd, destroyer, kwrites, dangling, sig>>
vars == <<progVars, kernVars, sigHandler, notif, startVars, traced, lastOp,
          calls, fault, histVars, raceVars>>

\* Thread ids: those the slot array has room for, and one beyond it.
TIDs == 0..PidMax

RingWords == PERF_PAGE_SIZE \div SizeofU64

\* Regions the address space has room for: one per descriptor.
MaxRegions == MaxFds

\* A slot as calloc leaves it.
EmptySlot == [fd |-> 0, page |-> NULL, lock |-> 0]

\* A region as mmap hands it out for counter fd: the cursors of the control
\* page, the words of the data page and, for the record, what the kernel
\* has published in it and where.
FreshPage(fd) ==
    [data_tail |-> 0, data_head |-> 0, fd |-> fd,
     ring |-> [i \in 0..(RingWords - 1) |-> 0],
     written |-> <<>>]

\* The callers of getCallChain.
Readers == 1..NumReaders

\* A thread outside getCallChain.
IdleReader ==
    [pc |-> "idle", tid |-> 0, max_depth |-> 0,
     jit_min_address |-> 0, jit_max_address |-> 0,
     page |-> NULL, tail |-> 0, head |-> 0, offset |-> 0, nr |-> 0,
     depth |-> 0, callchain |-> <<>>, ret |-> 0,
     path |-> "none", unread |-> <<>>]

\* A thread that has returned from getCallChain: its arguments, the value
\* returned and the part of callchain[] it filled are kept for the record,
\* with the way it took and the records that were unread when it looked.
Returned(l, ret) ==
    [IdleReader EXCEPT !.pc = "returned", !.tid = l.tid,
                       !.max_depth = l.max_depth,
                       !.jit_min_address = l.jit_min_address,
                       !.jit_max_address = l.jit_max_address,
                       !.callchain = l.callchain, !.ret = ret,
                       !.path = l.path, !.unread = l.unread]

\* No signal has been delivered.
IdleSignal ==
    [pc |-> "idle", si_code |-> 0, si_fd |-> 0, counter |-> 0, log |-> <<>>,
     stale |-> FALSE]

\* No thread is inside getCallChain, destroyForThread or signalHandler.
Quiet ==
    /\ rd = [r \in Readers |-> IdleReader]
    /\ destroyer = [pc |-> "idle", tid |-> 0]
    /\ kwrites = 0
    /\ dangling = FALSE
    /\ sig = IdleSignal

NoOp == [op |-> "none", tid |-> -1, ret |-> FALSE]

\* The record of an operation, its argument and its result.
Op(op, tid, ret) ==
    IF traced THEN [op |-> op, tid |-> tid, ret |-> ret]
    ELSE [op |-> op, tid |-> -1, ret |-> FALSE]

\* The least number of 1..max not in used, 0 when all are.
LowestFree(used, max) ==
    IF \E i \in 1..max : i \notin used
    THEN CHOOSE i \in 1..max : i \notin used /\ \A j \in 1..(i - 1) : j \in used
    ELSE 0

(***************************************************************************)
(* SpinLock (spinLock.h): lock() spins until it changes 0 to 1, tryLock()  *)
(* tries once, unlock() and reset() store 0.                               *)
(***************************************************************************)
tryLock(l) == [ok |-> l = 0, lock |-> IF l = 0 THEN 1 ELSE l]
unlock(l) == 0
reset(l) == 0

(***************************************************************************)
(* The operations as functions of the state they touch: the slot array,    *)
(* the kernel's tables, the log of calls, the value returned.              *)
(***************************************************************************)
Cur == [ev |-> _events, fds |-> openFds, en |-> enabled, maps |-> mapped,
        pgs |-> pages, log |-> <<>>, ret |-> FALSE, fault |-> FALSE]

Put(s) ==
    /\ _events' = s.ev
    /\ openFds' = s.fds
    /\ enabled' = s.en
    /\ mapped' = s.maps
    /\ pages' = s.pgs
    /\ calls' = IF traced THEN s.log ELSE <<>>
    /\ fault' = s.fault

\* What the kernel may answer to one createForThread: whether it opens the
\* counter and whether it maps the buffer.
KernelOutcomes == {[open |-> FALSE, map |-> FALSE],
                   [open |-> TRUE, map |-> FALSE],
                   [open |-> TRUE, map |-> TRUE]}

\* The perf_event_attr createForThread builds from the active descriptor.
Attr(d) ==
    [type |-> d.type,
     config |-> IF d.type = PERF_TYPE_BREAKPOINT THEN 0 ELSE d.config,
     bp_addr |-> IF d.type = PERF_TYPE_BREAKPOINT THEN d.config ELSE 0,
     bp_type |-> IF d.type = PERF_TYPE_BREAKPOINT THEN d.bp_type ELSE 0,
     bp_len |-> IF d.type = PERF_TYPE_BREAKPOINT THEN d.bp_len ELSE 0,
     precise_ip |-> d.precise_ip,
     sample_period |-> _interval]

\* createForThread after perf_event_open returned fd # -1.
CreateStore(s, tid, fd, k) ==
    LET region == IF k.map THEN LowestFree(s.maps, MaxRegions) ELSE 0
        \* MAP_FAILED becomes a null page
        page == IF region = 0 THEN NULL ELSE region
    IN [s EXCEPT
          !.fds = @ \cup {fd},
          !.maps = IF page = NULL THEN @ ELSE @ \cup {page},
          !.pgs = IF page = NULL THEN @ ELSE [@ EXCEPT ![page] = FreshPage(fd)],
          !.ev = [@ EXCEPT ![tid] = [fd |-> fd, page |-> page,
                                     lock |-> reset(@.lock)]],
          !.en = @ \cup {fd},
          !.log = @ \o << <<"mmap", fd, page>>, <<"slot", tid, 0>>,
                          <<"fcntl", fd, tid>>,
                          <<"ioctl_RESET", fd, 0>>, <<"ioctl_REFRESH", fd, 1>> >>,
          !.ret = TRUE]

\* createForThread storing the handle before it looks at it
createForThreadStoreFirst(s, tid, k) ==
    IF tid >= _max_events
    THEN [s EXCEPT !.ret = FALSE]
    ELSE LET free == LowestFree(s.fds, MaxFds)
             fd == IF k.open /\ free # 0 THEN free ELSE -1
             attr == Attr(Entry(AVAILABLE_EVENTS, _event_type))
             s1 == [s EXCEPT !.log = @ \o << <<"perf_event_open",
                                  [attr |-> attr, pid |-> tid], fd>> >>]
         IN IF fd = -1
            THEN [s1 EXCEPT !.ret = FALSE,
                            !.ev = [@ EXCEPT ![tid].fd = fd],
                            !.log = @ \o << <<"slot", tid, 0>> >>]
            ELSE CreateStore(s1, tid, fd, k)

createForThread(s, tid, k) ==
    IF tid >= _max_events
    THEN [s EXCEPT !.ret = FALSE]
    ELSE IF _event_type = NULL
    THEN \* _event_type->type dereferences a null pointer
         [s EXCEPT !.ret = FALSE, !.fault = TRUE]
    ELSE LET free == LowestFree(s.fds, MaxFds)
             fd == IF k.open /\ free # 0 THEN free ELSE -1
             attr == Attr(Entry(AVAILABLE_EVENTS, _event_type))
             s1 == [s EXCEPT !.log = @ \o << <<"perf_event_open",
                                  [attr |-> attr, pid |-> tid], fd>> >>]
         IN IF fd = -1
            THEN [s1 EXCEPT !.ret = FALSE]
            ELSE CreateStore(s1, tid, fd, k)

\* destroyForThread closing the counter and leaving the handle in the slot
DestroyCloseKeepFd(s, tid) ==
    LET fd == s.ev[tid].fd
        s0 == [s EXCEPT !.log = @ \o << <<"slot", tid, 0>> >>]
    IN IF fd # 0
       THEN [s0 EXCEPT
               !.log = @ \o << <<"ioctl_DISABLE", fd, 0>>, <<"close", fd, 0>> >>,
               !.fds = @ \ {fd},
               !.en = @ \ {fd}]
       ELSE s0

\* destroyForThread, lines 376-380: disable and close the counter.
DestroyClose(s, tid) ==
    LET fd == s.ev[tid].fd
        s0 == [s EXCEPT !.log = @ \o << <<"slot", tid, 0>> >>]
    IN IF fd # 0
       THEN [s0 EXCEPT
               !.log = @ \o << <<"ioctl_DISABLE", fd, 0>>, <<"close", fd, 0>> >>,
               !.fds = @ \ {fd},
               !.en = @ \ {fd},
               !.pgs = [r \in DOMAIN @ |->
                           IF @[r].fd = fd THEN [@[r] EXCEPT !.fd = 0] ELSE @[r]],
               !.ev = [@ EXCEPT ![tid].fd = 0]]
       ELSE s0

\* event->lock(), once the guard is free
DestroyLock(s, tid) ==
    [s EXCEPT !.ev = [@ EXCEPT ![tid].lock = tryLock(@).lock]]

\* munmap(event->_page, 2 * PERF_PAGE_SIZE)
DestroyMunmap(s, tid) ==
    [s EXCEPT !.maps = @ \ {s.ev[tid].page},
              !.log = @ \o << <<"munmap", s.ev[tid].page, 0>> >>]

\* event->_page = NULL
DestroyClear(s, tid) == [s EXCEPT !.ev = [@ EXCEPT ![tid].page = NULL]]

\* event->unlock()
DestroyUnlock(s, tid) == [s EXCEPT !.ev = [@ EXCEPT ![tid].lock = unlock(@)]]

\* Whether destroyForThread(tid) runs to its end without spinning.
DestroyReturns(s, tid) ==
    IF tid >= _max_events THEN TRUE
    ELSE IF s.ev[tid].page = NULL THEN TRUE
    ELSE s.ev[tid].lock = 0

destroyForThread(s, tid) ==
    IF tid >= _max_events
    THEN s
    ELSE LET s1 == DestroyClose(s, tid)
         IN IF s1.ev[tid].page # NULL
            THEN DestroyUnlock(DestroyClear(DestroyMunmap(DestroyLock(s1, tid), tid), tid), tid)
            ELSE s1

\* for (int i = 0; i < _max_events; i++) destroyForThread(i), from i on
RECURSIVE destroyForAllThreads(_, _)
destroyForAllThreads(s, i) ==
    IF i >= _max_events THEN s
    ELSE destroyForAllThreads(destroyForThread(s, i), i + 1)

RECURSIVE AllDestroysReturn(_, _)
AllDestroysReturn(s, i) ==
    IF i >= _max_events THEN TRUE
    ELSE DestroyReturns(s, i) /\ AllDestroysReturn(destroyForThread(s, i), i + 1)

\* The history of an enumeration is kept until the first operation after
\* start() has returned.
EnumHistory ==
    IF pc = "idle"
    THEN listing' = {} /\ enumLog' = <<>>
    ELSE UNCHANGED enumVars

\* The tids whose counter the kernel opened, by the log of one call.
OpenedIn(log) ==
    \E i \in 1..Len(log) : log[i][1] = "perf_event_open" /\ log[i][3] # -1

(***************************************************************************)
(* The session: start() step by step on the control thread, stop(), and    *)
(* the thread notifications of the runtime, which call createForThread and *)
(* destroyForThread.                                                       *)
(***************************************************************************)
StartEvents == {Str_cpu, <<"n", "o", "s", "u", "c", "h">>}
StartIntervals == {-1, 0}

\* start(), lines 429-437
StartResolve(event, interval) ==
    /\ ~fault /\ pc = "idle"
    /\ LET r == forName(AVAILABLE_EVENTS, event)
       IN /\ _event_type' = r.ptr
          /\ AVAILABLE_EVENTS' = r.tab
          /\ IF r.ptr = NULL
             THEN /\ startRet' = "Unsupported event type"
                  /\ UNCHANGED <<pc, _interval>>
             ELSE IF interval < 0
             THEN /\ startRet' = "interval must be positive"
                  /\ UNCHANGED <<pc, _interval>>
             ELSE /\ _interval' = IF interval # 0 THEN interval
                                  ELSE Entry(r.tab, r.ptr).default_interval
                  /\ startRet' = "running"
                  /\ pc' = "alloc"
    /\ lastOp' = Op("start", -1, FALSE)
    /\ calls' = <<>>
    /\ listing' = {} /\ enumLog' = <<>>
    /\ UNCHANGED <<raceVars, traced, _max_events, _events, kernVars, sigHandler, notif, todo,
                   success, fault, active>>

\* start(), lines 439-444
StartAlloc ==
    /\ ~fault /\ pc = "alloc"
    /\ IF PidMax # _max_events
       THEN /\ _events' = [i \in 0..(PidMax - 1) |-> EmptySlot]
            /\ _max_events' = PidMax
       ELSE UNCHANGED <<_events, _max_events>>
    /\ pc' = "install"
    /\ UNCHANGED <<raceVars, traced, AVAILABLE_EVENTS, _event_type, _interval, kernVars,
                   sigHandler, notif, todo, success, startRet, lastOp, calls,
                   fault, histVars>>

\* start() going on to the notifications without installSignalHandler()
StartInstallSkipped ==
    /\ ~fault /\ pc = "install"
    /\ pc' = "enable"
    /\ UNCHANGED <<raceVars, traced, progVars, kernVars, sigHandler, notif, todo, success,
                   startRet, lastOp, calls, fault, histVars>>

\* start(), line 446: installSignalHandler()
StartInstall ==
    /\ ~fault /\ pc = "install"
    /\ sigHandler' = TRUE
    /\ pc' = "enable"
    /\ UNCHANGED <<raceVars, traced, progVars, kernVars, notif, todo, success, startRet, lastOp,
                   calls, fault, histVars>>

\* start(), lines 448-450
StartEnable ==
    /\ ~fault /\ pc = "enable"
    /\ notif' = TRUE
    /\ pc' = "opendir"
    /\ UNCHANGED <<raceVars, traced, progVars, kernVars, sigHandler, todo, success, startRet,
                   lastOp, calls, fault, histVars>>

\* createForAllThreads(), lines 353-356: the entries of /proc/self/task;
\* none when opendir fails.
StartOpendir ==
    /\ ~fault /\ pc = "opendir"
    /\ \E l \in SUBSET TIDs :
          /\ todo' = l
          /\ listing' = l
    /\ success' = FALSE
    /\ pc' = "readdir"
    /\ UNCHANGED <<raceVars, traced, progVars, kernVars, sigHandler, notif, startRet, lastOp,
                   calls, fault, enumLog, active>>

\* success = createForThread(tid): the last call alone decides
AccumulateLast(acc, ret) == ret

\* success |= createForThread(tid)
Accumulate(acc, ret) == acc \/ ret

\* createForAllThreads(), lines 358-363: one entry of the directory
StartReaddir ==
    /\ ~fault /\ pc = "readdir" /\ todo # {}
    /\ \E tid \in todo, k \in KernelOutcomes :
          LET s == createForThread(Cur, tid, k)
          IN /\ Put(s)
             /\ success' = Accumulate(success, s.ret)
             /\ todo' = todo \ {tid}
             /\ lastOp' = Op("createForThread", tid, s.ret)
             /\ enumLog' = Append(enumLog, <<tid, OpenedIn(s.log)>>)
    /\ UNCHANGED <<raceVars, traced, AVAILABLE_EVENTS, _event_type, _interval, _max_events,
                   sigHandler, notif, pc, startRet, listing, active>>

\* createForAllThreads() returns and start() with it, lines 364-367, 452-455
StartReturn ==
    /\ ~fault /\ pc = "readdir" /\ todo = {}
    /\ startRet' = IF ~success THEN "Perf events unavailble" ELSE "OK"
    /\ pc' = "idle"
    /\ lastOp' = Op("start", -1, success)
    /\ calls' = <<>>
    /\ active' = IF success
                 THEN [ptr |-> _event_type,
                       desc |-> Entry(AVAILABLE_EVENTS, _event_type)]
                 ELSE active
    /\ success' = FALSE
    /\ UNCHANGED <<raceVars, traced, progVars, kernVars, sigHandler, notif, todo, fault,
                   listing, enumLog>>

\* The runtime's "thread started" notification: createForThread(tid)
ThreadStart(tid) ==
    /\ ~fault /\ notif
    /\ \E k \in KernelOutcomes :
          LET s == createForThread(Cur, tid, k)
          IN /\ Put(s)
             /\ lastOp' = Op("createForThread", tid, s.ret)
    /\ EnumHistory
    /\ UNCHANGED <<raceVars, traced, AVAILABLE_EVENTS, _event_type, _interval, _max_events,
                   sigHandler, notif, startVars, active>>

\* The runtime's "thread ended" notification: destroyForThread(tid)
ThreadEnd(tid) ==
    /\ ~fault /\ notif
    /\ DestroyReturns(Cur, tid)
    /\ Put(destroyForThread(Cur, tid))
    /\ lastOp' = Op("destroyForThread", tid, FALSE)
    /\ EnumHistory
    /\ UNCHANGED <<raceVars, traced, AVAILABLE_EVENTS, _event_type, _interval, _max_events,
                   sigHandler, notif, startVars, active>>

\* stop(), lines 458-464
Stop ==
    /\ ~fault /\ pc = "idle"
    /\ notif' = FALSE
    /\ AllDestroysReturn(Cur, 0)
    /\ Put(destroyForAllThreads(Cur, 0))
    /\ lastOp' = Op("stop", -1, FALSE)
    /\ active' = [ptr |-> NULL, desc |-> NULL]
    /\ EnumHistory
    /\ UNCHANGED <<raceVars, traced, AVAILABLE_EVENTS, _event_type, _interval, _max_events,
                   sigHandler, startVars>>

\* The process before the first start().
Init ==
    /\ AVAILABLE_EVENTS = InitialTable
    /\ _event_type = NULL
    /\ _interval = 0
    /\ _max_events = 0
    /\ _events = <<>>
    /\ openFds = {} /\ enabled = {} /\ mapped = {}
    /\ pages = [r \in 1..MaxRegions |-> FreshPage(0)]
    /\ sigHandler = FALSE /\ notif = FALSE
    /\ pc = "idle" /\ todo = {} /\ success = FALSE /\ startRet = "none"
    /\ traced = FALSE /\ lastOp = NoOp /\ calls = <<>> /\ fault = FALSE
    /\ listing = {} /\ enumLog = <<>>
    /\ active = [ptr |-> NULL, desc |-> NULL]
    /\ Quiet

Next ==
    \/ \E event \in StartEvents, interval \in StartIntervals :
          StartResolve(event, interval)
    \/ StartAlloc
    \/ StartInstall
    \/ StartEnable
    \/ StartOpendir
    \/ StartReaddir
    \/ StartReturn
    \/ \E tid \in TIDs : ThreadStart(tid)
    \/ \E tid \in TIDs : ThreadEnd(tid)
    \/ Stop

Spec == Init /\ [][Next]_vars

(***************************************************************************)
(* The slots of a running session: thread notifications in any order, with *)
(* the calls of each operation recorded.                                   *)
(***************************************************************************)
SlotEvents == {Str_cpu, Str_malloc,
               <<"m", "e", "m", ":", "f", "o", "o", "+", "0", "x", "1", "0", "/", "4", ":", "w">>}

\* A session started on one of the events, with its default interval,
\* whose threads have all ended.
InitSlot ==
    /\ \E event \in SlotEvents :
          LET r == forName(InitialTable, event)
          IN /\ AVAILABLE_EVENTS = r.tab
             /\ _event_type = r.ptr
             /\ _interval = Entry(r.tab, r.ptr).default_interval
             /\ active = [ptr |-> r.ptr, desc |-> Entry(r.tab, r.ptr)]
    /\ _max_events = PidMax
    /\ _events = [i \in 0..(PidMax - 1) |-> EmptySlot]
    /\ openFds = {} /\ enabled = {} /\ mapped = {}
    /\ pages = [r \in 1..MaxRegions |-> FreshPage(0)]
    /\ sigHandler = TRUE /\ notif = TRUE
    /\ pc = "idle" /\ todo = {} /\ success = FALSE /\ startRet = "OK"
    /\ traced = TRUE /\ lastOp = NoOp /\ calls = <<>> /\ fault = FALSE
    /\ listing = {} /\ enumLog = <<>>
    /\ Quiet

NextSlot ==
    \/ \E tid \in TIDs : ThreadStart(tid)
    \/ \E tid \in TIDs : ThreadEnd(tid)

SpecSlot == InitSlot /\ [][NextSlot]_vars

(***************************************************************************)
(* The ring buffer: the kernel publishes records in the data page and      *)
(* advances data_head; getCallChain reads them through RingBuffer.         *)
(***************************************************************************)
\* struct perf_event_header in one word of the model: type in the low half,
\* size in the high half.
HalfBits == WordBits \div 2
Header(type, size) == type + size * 2^HalfBits
hdrType(w) == w % 2^HalfBits
hdrSize(w) == w \div 2^HalfBits

\* RingBuffer::seek: offset & (PERF_PAGE_SIZE - 1)
seek(offset) == offset % PERF_PAGE_SIZE

\* RingBuffer::next: the offset of the next word
next(offset) == (offset + SizeofU64) % PERF_PAGE_SIZE

\* *(u64*)(_start + offset)
WordAt(pg, offset) == pg.ring[offset \div SizeofU64]

\* A PERF_RECORD_SAMPLE of sample_type PERF_SAMPLE_CALLCHAIN: nr, ips[nr].
SampleRecord(ips) == [type |-> PERF_RECORD_SAMPLE, body |-> <<Len(ips)>> \o ips]

\* A record of another type with n words after its header.
OtherRecord(n) == [type |-> PERF_RECORD_LOST, body |-> [i \in 1..n |-> 0]]

\* The words of a record as the kernel lays them out.
Encode(rec) ==
    <<Header(rec.type, SizeofU64 * (1 + Len(rec.body)))>> \o rec.body

RECURSIVE PutWords(_, _, _)
PutWords(ring, offset, words) ==
    IF words = <<>> THEN ring
    ELSE PutWords([ring EXCEPT ![seek(offset) \div SizeofU64] = Head(words)],
                  offset + SizeofU64, Tail(words))

\* The kernel writes no record over data the reader has not released.
Fits(pg, rec) ==
    pg.data_head + SizeofU64 * Len(Encode(rec)) - pg.data_tail <= PERF_PAGE_SIZE

\* The kernel publishes a record: the words, then data_head.
Publish(pg, rec) ==
    [pg EXCEPT !.ring = PutWords(@, pg.data_head, Encode(rec)),
               !.data_head = @ + SizeofU64 * Len(Encode(rec)),
               !.written = Append(@, [at |-> pg.data_head, rec |-> rec])]

RECURSIVE PublishAll(_, _)
PublishAll(pg, recs) ==
    IF recs = <<>> THEN pg
    ELSE PublishAll(Publish(pg, Head(recs)), Tail(recs))

\* The records published at or after byte from and before byte to.
Between(pg, from, to) ==
    SelectSeq(pg.written, LAMBDA w : w.at >= from /\ w.at < to)

\* The counter of region p overflows, or the kernel has another record.
KernelWrite(p, rec) ==
    /\ ~fault
    /\ p \in mapped /\ pages[p].fd \in openFds
    /\ kwrites < MaxWrites
    /\ Fits(pages[p], rec)
    /\ pages' = [pages EXCEPT ![p] = Publish(@, rec)]
    /\ kwrites' = kwrites + 1
    /\ UNCHANGED <<progVars, openFds, enabled, mapped, sigHandler, notif,
                   startVars, traced, lastOp, calls, fault, histVars,
                   rd, destroyer, dangling, sig>>

(***************************************************************************)
(* getCallChain, one memory access or loop iteration at a time.            *)
(***************************************************************************)
\* What reader r leaves alone.
ReaderFrame ==
    UNCHANGED <<AVAILABLE_EVENTS, _event_type, _interval, _max_events,
                openFds, enabled, mapped, sigHandler, notif, startVars,
                traced, lastOp, calls, histVars, destroyer, kwrites, sig>>

\* An access through the local page pointer: if the region has been
\* unmapped the access faults, or reaches what the address holds now.
Access(r) ==
    IF rd[r].page \in mapped
    THEN UNCHANGED <<dangling, fault>>
    ELSE /\ dangling' = TRUE
         /\ \E crash \in BOOLEAN : fault' = crash

\* The call, lines 477-479
GetCallChainCall(r, tid, max_depth, jit_min_address, jit_max_address) ==
    /\ ~fault /\ rd[r].pc \in {"idle", "returned"}
    /\ rd' = [rd EXCEPT ![r] =
                [IdleReader EXCEPT !.pc = "tryLock", !.tid = tid,
                                   !.max_depth = max_depth,
                                   !.jit_min_address = jit_min_address,
                                   !.jit_max_address = jit_max_address]]
    /\ ReaderFrame
    /\ UNCHANGED <<_events, pages, dangling, fault>>

\* event->lock() in the place of tryLock(): the reader waits for the guard
GetCallChainLock(r) ==
    /\ ~fault /\ rd[r].pc = "tryLock"
    /\ _events[rd[r].tid].lock = 0
    /\ _events' = [_events EXCEPT ![rd[r].tid].lock = 1]
    /\ rd' = [rd EXCEPT ![r].pc = "page", ![r].depth = 0]
    /\ ReaderFrame
    /\ UNCHANGED <<pages, dangling, fault>>

\* the reader goes on without the guard
GetCallChainNoTryLock(r) ==
    /\ ~fault /\ rd[r].pc = "tryLock"
    /\ rd' = [rd EXCEPT ![r].pc = "page", ![r].depth = 0]
    /\ ReaderFrame
    /\ UNCHANGED <<_events, pages, dangling, fault>>

\* if (!event->tryLock()) return 0; int depth = 0;  lines 480-484.
\* event is &_events[tid], computed at line 479 without a look at tid: with
\* tid outside the array, or no array, the guard is whatever lies at that
\* address.  The access faults; or the word reads as taken and the call
\* returns 0; or it reads as free and the call goes on in memory that is
\* no slot, to return nothing or something that is no sample.
GetCallChainTryLock(r) ==
    /\ ~fault /\ rd[r].pc = "tryLock"
    /\ IF rd[r].tid \in DOMAIN _events
       THEN /\ LET t == tryLock(_events[rd[r].tid].lock)
               IN IF t.ok
                  THEN /\ _events' = [_events EXCEPT ![rd[r].tid].lock = t.lock]
                       /\ rd' = [rd EXCEPT ![r].pc = "page", ![r].depth = 0]
                  ELSE /\ UNCHANGED _events
                       /\ rd' = [rd EXCEPT ![r] =
                                    Returned([rd[r] EXCEPT !.path = "busy"], 0)]
            /\ UNCHANGED fault
       ELSE /\ UNCHANGED _events
            /\ \E crash \in BOOLEAN,
                  junk \in {<<>>} \cup {<<16>> : d \in 1..rd[r].max_depth} :
                  /\ fault' = crash
                  /\ rd' = [rd EXCEPT ![r] =
                               Returned([rd[r] EXCEPT !.path = "outside",
                                                      !.callchain = junk],
                                        Len(junk))]
    /\ ReaderFrame
    /\ UNCHANGED <<pages, dangling>>

\* page = event->_page; if (page != NULL)  lines 486-487
GetCallChainPage(r) ==
    /\ ~fault /\ rd[r].pc = "page"
    /\ LET page == _events[rd[r].tid].page
       IN rd' = [rd EXCEPT ![r].page = page,
                           ![r].pc = IF page # NULL THEN "cursors" ELSE "unlock",
                           ![r].path = IF page # NULL THEN "decoded" ELSE "nopage"]
    /\ ReaderFrame
    /\ UNCHANGED <<_events, pages, dangling, fault>>

\* tail = page->data_tail; head = page->data_head; rmb();  lines 488-492
GetCallChainCursors(r) ==
    /\ ~fault /\ rd[r].pc = "cursors"
    /\ LET pg == pages[rd[r].page]
       IN rd' = [rd EXCEPT ![r].tail = pg.data_tail,
                           ![r].head = pg.data_head,
                           ![r].unread = Between(pg, pg.data_tail, pg.data_head),
                           ![r].pc = "scan"]
    /\ Access(r)
    /\ ReaderFrame
    /\ UNCHANGED <<_events, pages>>

\* One turn of while (tail < head), lines 494-497 and 509-512
GetCallChainScan(r) ==
    /\ ~fault /\ rd[r].pc = "scan"
    /\ IF rd[r].tail < rd[r].head
       THEN LET pg == pages[rd[r].page]
                offset == seek(rd[r].tail)
                hdr == WordAt(pg, offset)
            IN /\ IF hdrType(hdr) = PERF_RECORD_SAMPLE
                  THEN rd' = [rd EXCEPT ![r].offset = next(offset),
                                        ![r].nr = WordAt(pg, next(offset)),
                                        ![r].pc = "ips"]
                  ELSE rd' = [rd EXCEPT ![r].offset = offset,
                                        ![r].tail = @ + hdrSize(hdr)]
               /\ Access(r)
       ELSE /\ rd' = [rd EXCEPT ![r].pc = "advance"]
            /\ UNCHANGED <<dangling, fault>>
    /\ ReaderFrame
    /\ UNCHANGED <<_events, pages>>

\* the loop skips an address inside the range and goes on
GetCallChainIpsNoBreak(r) ==
    /\ ~fault /\ rd[r].pc = "ips"
    /\ IF rd[r].nr > 0 /\ rd[r].depth < rd[r].max_depth
       THEN LET pg == pages[rd[r].page]
                offset == next(rd[r].offset)
                ip == WordAt(pg, offset)
            IN /\ IF ip < PERF_CONTEXT_MAX
                     /\ ~(ip >= rd[r].jit_min_address /\ ip < rd[r].jit_max_address)
                  THEN rd' = [rd EXCEPT ![r].offset = offset,
                                        ![r].nr = @ - 1,
                                        ![r].callchain = Append(@, ip),
                                        ![r].depth = @ + 1]
                  ELSE rd' = [rd EXCEPT ![r].offset = offset, ![r].nr = @ - 1]
               /\ Access(r)
       ELSE /\ rd' = [rd EXCEPT ![r].pc = "advance"]
            /\ UNCHANGED <<dangling, fault>>
    /\ ReaderFrame
    /\ UNCHANGED <<_events, pages>>

\* One turn of while (nr-- > 0 && depth < max_depth), lines 498-508
GetCallChainIps(r) ==
    /\ ~fault /\ rd[r].pc = "ips"
    /\ IF rd[r].nr > 0 /\ rd[r].depth < rd[r].max_depth
       THEN LET pg == pages[rd[r].page]
                offset == next(rd[r].offset)
                ip == WordAt(pg, offset)
            IN /\ IF ip < PERF_CONTEXT_MAX
                  THEN IF ip >= rd[r].jit_min_address /\ ip < rd[r].jit_max_address
                       THEN \* Stop at the first Java frame
                            rd' = [rd EXCEPT ![r].offset = offset,
                                             ![r].nr = @ - 1,
                                             ![r].pc = "advance"]
                       ELSE rd' = [rd EXCEPT ![r].offset = offset,
                                             ![r].nr = @ - 1,
                                             ![r].callchain = Append(@, ip),
                                             ![r].depth = @ + 1]
                  ELSE rd' = [rd EXCEPT ![r].offset = offset, ![r].nr = @ - 1]
               /\ Access(r)
       ELSE /\ rd' = [rd EXCEPT ![r].pc = "advance"]
            /\ UNCHANGED <<dangling, fault>>
    /\ ReaderFrame
    /\ UNCHANGED <<_events, pages>>

\* the reader releases the buffer up to the record it stopped at
GetCallChainAdvanceToTail(r) ==
    /\ ~fault /\ rd[r].pc = "advance"
    /\ pages' = [pages EXCEPT ![rd[r].page].data_tail = rd[r].tail]
    /\ rd' = [rd EXCEPT ![r].pc = "unlock"]
    /\ Access(r)
    /\ ReaderFrame
    /\ UNCHANGED _events

\* page->data_tail = head;  line 514
GetCallChainAdvance(r) ==
    /\ ~fault /\ rd[r].pc = "advance"
    /\ pages' = [pages EXCEPT ![rd[r].page].data_tail = rd[r].head]
    /\ rd' = [rd EXCEPT ![r].pc = "unlock"]
    /\ Access(r)
    /\ ReaderFrame
    /\ UNCHANGED _events

\* the reader returns with the guard still taken
GetCallChainReturnLocked(r) ==
    /\ ~fault /\ rd[r].pc = "unlock"
    /\ rd' = [rd EXCEPT ![r] = Returned(rd[r], rd[r].depth)]
    /\ ReaderFrame
    /\ UNCHANGED <<_events, pages, dangling, fault>>

\* event->unlock(); return depth;  lines 517-518
GetCallChainUnlock(r) ==
    /\ ~fault /\ rd[r].pc = "unlock"
    /\ _events' = [_events EXCEPT ![rd[r].tid].lock = unlock(@)]
    /\ rd' = [rd EXCEPT ![r] = Returned(rd[r], rd[r].depth)]
    /\ ReaderFrame
    /\ UNCHANGED <<pages, dangling, fault>>

(***************************************************************************)
(* destroyForThread, one statement at a time.                              *)
(***************************************************************************)
\* What the thread inside destroyForThread leaves alone.
TeardownFrame ==
    UNCHANGED <<AVAILABLE_EVENTS, _event_type, _interval, _max_events,
                sigHandler, notif, startVars, traced, lastOp, histVars,
                rd, kwrites, dangling, sig>>

\* lines 371-380: the bounds check, then the counter
TeardownClose(tid) ==
    /\ ~fault /\ destroyer.pc = "idle"
    /\ IF tid >= _max_events
       THEN UNCHANGED <<_events, kernVars, calls, fault, destroyer>>
       ELSE /\ Put(DestroyClose(Cur, tid))
            /\ destroyer' = [pc |-> "check", tid |-> tid]
    /\ TeardownFrame

\* line 381: if (event->_page != NULL)
TeardownCheck ==
    /\ ~fault /\ destroyer.pc = "check"
    /\ destroyer' = [destroyer EXCEPT
                        !.pc = IF _events[destroyer.tid].page # NULL
                               THEN "lock" ELSE "idle"]
    /\ UNCHANGED <<_events, kernVars, calls, fault>>
    /\ TeardownFrame

\* the buffer is unmapped without the guard
TeardownNoLock ==
    /\ ~fault /\ destroyer.pc = "lock"
    /\ destroyer' = [destroyer EXCEPT !.pc = "munmap"]
    /\ UNCHANGED <<_events, kernVars, calls, fault>>
    /\ TeardownFrame

\* line 382: event->lock() returns once the guard is free
TeardownLock ==
    /\ ~fault /\ destroyer.pc = "lock"
    /\ tryLock(_events[destroyer.tid].lock).ok
    /\ Put(DestroyLock(Cur, destroyer.tid))
    /\ destroyer' = [destroyer EXCEPT !.pc = "munmap"]
    /\ TeardownFrame

\* line 383
TeardownMunmap ==
    /\ ~fault /\ destroyer.pc = "munmap"
    /\ Put(DestroyMunmap(Cur, destroyer.tid))
    /\ destroyer' = [destroyer EXCEPT !.pc = "clear"]
    /\ TeardownFrame

\* line 384
TeardownClear ==
    /\ ~fault /\ destroyer.pc = "clear"
    /\ Put(DestroyClear(Cur, destroyer.tid))
    /\ destroyer' = [destroyer EXCEPT !.pc = "unlock"]
    /\ TeardownFrame

\* line 385 and the return
TeardownUnlock ==
    /\ ~fault /\ destroyer.pc = "unlock"
    /\ Put(DestroyUnlock(Cur, destroyer.tid))
    /\ destroyer' = [destroyer EXCEPT !.pc = "idle"]
    /\ TeardownFrame

(***************************************************************************)
(* Readers against a teardown: a session on "cpu" in which thread 0 has    *)
(* its counter, with or without a buffer; the kernel publishes records,    *)
(* threads call getCallChain and the slots are destroyed.                  *)
(***************************************************************************)
\* The slots and the kernel's tables of a session without counters.
Blank ==
    [ev |-> [i \in 0..(PidMax - 1) |-> EmptySlot],
     fds |-> {}, en |-> {}, maps |-> {},
     pgs |-> [p \in 1..MaxRegions |-> FreshPage(0)],
     log |-> <<>>, ret |-> FALSE, fault |-> FALSE]

\* A session started on "cpu".
SessionOnCpu ==
    /\ LET r == forName(InitialTable, Str_cpu)
       IN /\ AVAILABLE_EVENTS = r.tab
          /\ _event_type = r.ptr
          /\ _interval = Entry(r.tab, r.ptr).default_interval
          /\ active = [ptr |-> r.ptr, desc |-> Entry(r.tab, r.ptr)]
    /\ _max_events = PidMax
    /\ sigHandler = TRUE /\ notif = TRUE
    /\ pc = "idle" /\ todo = {} /\ success = FALSE /\ startRet = "OK"
    /\ traced = FALSE /\ lastOp = NoOp /\ calls = <<>> /\ fault = FALSE
    /\ listing = {} /\ enumLog = <<>>

InitRace ==
    /\ SessionOnCpu
    /\ \E k \in {o \in KernelOutcomes : o.open} :
          LET s == createForThread(Blank, 0, k)
          IN /\ _events = s.ev
             /\ openFds = s.fds /\ enabled = s.en /\ mapped = s.maps
             /\ pages = s.pgs
    /\ Quiet

RaceRecords == {SampleRecord(<<16>>), OtherRecord(0)}

NextRace ==
    \/ \E p \in 1..MaxRegions, rec \in RaceRecords : KernelWrite(p, rec)
    \/ \E r \in Readers : GetCallChainCall(r, 0, 1, 0, 0)
    \/ \E r \in Readers : GetCallChainTryLock(r)
    \/ \E r \in Readers : GetCallChainPage(r)
    \/ \E r \in Readers : GetCallChainCursors(r)
    \/ \E r \in Readers : GetCallChainScan(r)
    \/ \E r \in Readers : GetCallChainIps(r)
    \/ \E r \in Readers : GetCallChainAdvance(r)
    \/ \E r \in Readers : GetCallChainUnlock(r)
    \/ \E tid \in TIDs : TeardownClose(tid)
    \/ TeardownCheck
    \/ TeardownLock
    \/ TeardownMunmap
    \/ TeardownClear
    \/ TeardownUnlock

SpecRace == InitRace /\ [][NextRace]_vars

(***************************************************************************)
(* Decoding: thread 0 has a buffer in which the kernel has published       *)
(* records, and one thread calls getCallChain.                             *)
(***************************************************************************)
\* The sequences over S of length at most n.
SeqsUpTo(S, n) == UNION {[1..k -> S] : k \in 0..n}

\* Addresses and markers a sample may hold.
IpValues == {16, 32, PERF_CONTEXT_MAX - 1, PERF_CONTEXT_MAX}

\* [jit_min_address, jit_max_address) of a call
JitRanges == {<<0, 0>>, <<16, 32>>, <<32, 2^WordBits - 1>>}

\* What the kernel has published since the reader last released the
\* buffer: some records of other types, then at most one sample.
DecodeInputs ==
    {prefix \o sample :
        prefix \in SeqsUpTo({OtherRecord(0), OtherRecord(1)}, MaxWrites - 1),
        sample \in {<<>>} \cup {<<SampleRecord(ips)>> : ips \in SeqsUpTo(IpValues, MaxNr)}}

\* A buffer whose first bytes were published and released before.
Released(fd, bytes) ==
    LET pg == PublishAll(FreshPage(fd), [i \in 1..(bytes \div SizeofU64) |-> OtherRecord(0)])
    IN [pg EXCEPT !.data_tail = pg.data_head]

RECURSIVE AllFit(_, _)
AllFit(pg, recs) ==
    IF recs = <<>> THEN TRUE
    ELSE Fits(pg, Head(recs)) /\ AllFit(Publish(pg, Head(recs)), Tail(recs))

InitDecode ==
    /\ SessionOnCpu
    /\ LET s == createForThread(Blank, 0, [open |-> TRUE, map |-> TRUE])
       IN /\ _events = s.ev
          /\ openFds = s.fds /\ enabled = s.en /\ mapped = s.maps
          /\ \E bytes \in {0, PERF_PAGE_SIZE - SizeofU64}, recs \in DecodeInputs :
                LET p == s.ev[0].page
                    pg == Released(s.ev[0].fd, bytes)
                IN /\ AllFit(pg, recs)
                   /\ pages = [s.pgs EXCEPT ![p] = PublishAll(pg, recs)]
    /\ Quiet

NextDecode ==
    \/ \E max_depth \in 0..MaxNr, jit \in JitRanges :
          GetCallChainCall(1, 0, max_depth, jit[1], jit[2])
    \/ GetCallChainTryLock(1)
    \/ GetCallChainPage(1)
    \/ GetCallChainCursors(1)
    \/ GetCallChainScan(1)
    \/ GetCallChainIps(1)
    \/ GetCallChainAdvance(1)
    \/ GetCallChainUnlock(1)

SpecDecode == InitDecode /\ [][NextDecode]_vars

(***************************************************************************)
(* The catalog: names are resolved one after another through start(), each *)
(* with a negative interval, so that start() returns after line 436.       *)
(***************************************************************************)
\* getAvailableEvents(), lines 466-475: the name of every element of the
\* array, its {NULL} terminator included.
getAvailableEvents(tab) == [i \in 1..Len(tab) |-> Entry(tab, i).name]

\* The parts of a breakpoint name, symbol-or-0xaddress[+offset][/length][:access],
\* each with what it stands for: the address dlsym or strtoll gives, the
\* offset, the length (0: none given) and the access (0: none given).
Prefixes == {<<>>, <<"m", "e", "m", ":">>}
Symbols == {[text |-> Str_foo, addr |-> dlsym(Str_foo)],
            [text |-> Str_malloc, addr |-> dlsym(Str_malloc)],
            [text |-> <<"n", "o", "s", "u", "c", "h">>, addr |-> 0],
            [text |-> <<"0", "x", "1", "0", "0">>, addr |-> 256]}
Offsets == {[text |-> <<>>, val |-> 0],
            [text |-> <<"+", "0", "x", "1", "0">>, val |-> 16]}
Lengths == {[text |-> <<>>, val |-> 0], [text |-> <<"/", "4">>, val |-> 4]}
Accesses == {[text |-> <<>>, val |-> 0],
             [text |-> <<":", "r">>, val |-> HW_BREAKPOINT_R],
             [text |-> <<":", "w">>, val |-> HW_BREAKPOINT_W],
             [text |-> <<":", "x">>, val |-> HW_BREAKPOINT_X],
             [text |-> <<":", "q">>, val |-> HW_BREAKPOINT_RW]}

BreakpointNames ==
    {pre \o sym.text \o off.text \o len.text \o acc.text :
        pre \in Prefixes, sym \in Symbols, off \in Offsets, len \in Lengths,
        acc \in Accesses}

\* Tracepoint names: a raw id and a name of debugfs.
TracepointNames == {<<"t", "r", "a", "c", "e", ":", "5">>,
                    <<"s", "c", "h", "e", "d", ":">> \o Str_sched_switch}

\* The breakpoint names passed to start(): a symbol, alone or with both an
\* offset and a length, with no access, w or x.
StartedBreakpoints ==
    {pre \o q[1].text \o q[2].text \o q[3].text \o q[4].text :
        pre \in Prefixes,
        q \in {x \in Symbols \X Offsets \X Lengths \X Accesses :
                  /\ x[1].text[1] # "0"
                  /\ (x[3].val = 0) = (x[2].val = 0)
                  /\ x[4].val \in {0, HW_BREAKPOINT_W, HW_BREAKPOINT_X}}}

\* The names passed to start(): the listed ones and the others.
CatalogNames ==
    {n \in {getAvailableEvents(InitialTable)[i] : i \in 1..Len(InitialTable)} :
        n # NullName} \cup StartedBreakpoints \cup TracepointNames

NextCatalog == \E event \in CatalogNames : StartResolve(event, -1)

SpecCatalog == Init /\ [][NextCatalog]_vars

(***************************************************************************)
(* Backlog: thread 0 has a buffer, the kernel publishes records of other   *)
(* types and samples of two call chains at any time, and one thread calls  *)
(* getCallChain again and again.                                           *)
(***************************************************************************)
BacklogRecords == {OtherRecord(1), SampleRecord(<<16>>), SampleRecord(<<32>>)}

InitBacklog ==
    /\ SessionOnCpu
    /\ LET s == createForThread(Blank, 0, [open |-> TRUE, map |-> TRUE])
       IN /\ _events = s.ev
          /\ openFds = s.fds /\ enabled = s.en /\ mapped = s.maps
          /\ \E bytes \in {0, PERF_PAGE_SIZE - SizeofU64} :
                pages = [s.pgs EXCEPT ![s.ev[0].page] = Released(s.ev[0].fd, bytes)]
    /\ Quiet

NextBacklog ==
    \/ \E p \in 1..MaxRegions, rec \in BacklogRecords : KernelWrite(p, rec)
    \/ \E max_depth \in 0..MaxNr : GetCallChainCall(1, 0, max_depth, 0, 0)
    \/ GetCallChainTryLock(1)
    \/ GetCallChainPage(1)
    \/ GetCallChainCursors(1)
    \/ GetCallChainScan(1)
    \/ GetCallChainIps(1)
    \/ GetCallChainAdvance(1)
    \/ GetCallChainUnlock(1)

SpecBacklog == InitBacklog /\ [][NextBacklog]_vars

(***************************************************************************)
(* The guard: a session on "cpu" in which thread 0 has its counter; thread *)
(* starts create counters, one thread calls getCallChain on buffers that   *)
(* hold no record, and the slots are destroyed.                            *)
(***************************************************************************)
NextGuard ==
    \/ \E tid \in TIDs : ThreadStart(tid)
    \/ GetCallChainCall(1, 0, 1, 0, 0)
    \/ GetCallChainTryLock(1)
    \/ GetCallChainPage(1)
    \/ GetCallChainCursors(1)
    \/ GetCallChainScan(1)
    \/ GetCallChainAdvance(1)
    \/ GetCallChainUnlock(1)
    \/ \E tid \in TIDs : TeardownClose(tid)
    \/ TeardownCheck
    \/ TeardownLock
    \/ TeardownMunmap
    \/ TeardownClear
    \/ TeardownUnlock

SpecGuard == InitRace /\ [][NextGuard]_vars

(***************************************************************************)
(* Progress of a teardown among readers.  The last reader is the signal    *)
(* handler of the thread that runs destroyForThread: while it is inside    *)
(* getCallChain the interrupted thread takes no step.  The other readers   *)
(* are other threads.  destroyForThread disables and closes the counter    *)
(* (lines 376-380) before it takes the guard, and a counter is armed for   *)
(* one notification at a time (lines 347, 425): once a teardown has        *)
(* started, a thread enters getCallChain at most once more, for the        *)
(* notification in flight.  Every thread inside getCallChain or            *)
(* destroyForThread takes its next step when it can (weak fairness);       *)
(* calls and overflows come as they may.                                   *)
(***************************************************************************)
Handler == NumReaders

\* The thread inside destroyForThread is interrupted by its handler.
Interrupted == rd[Handler].pc \notin {"idle", "returned"}

\* A step of reader r inside getCallChain.
ReaderStep(r) ==
    \/ GetCallChainTryLock(r)
    \/ GetCallChainPage(r)
    \/ GetCallChainCursors(r)
    \/ GetCallChainScan(r)
    \/ GetCallChainIps(r)
    \/ GetCallChainAdvance(r)
    \/ GetCallChainUnlock(r)

\* A step of the thread inside destroyForThread.
TeardownStep ==
    /\ ~Interrupted
    /\ \/ TeardownCheck
       \/ TeardownLock
       \/ TeardownMunmap
       \/ TeardownClear
       \/ TeardownUnlock

\* A call of getCallChain(0, ...) by reader r: during a teardown, the one
\* call of a thread that has made none.
LiveCall(r) ==
    /\ destroyer.pc # "idle" => rd[r].pc = "idle"
    /\ GetCallChainCall(r, 0, 1, 0, 0)

NextLive ==
    \/ \E p \in 1..MaxRegions : KernelWrite(p, SampleRecord(<<16>>))
    \/ \E r \in Readers : LiveCall(r)
    \/ \E r \in Readers : ReaderStep(r)
    \/ \E tid \in TIDs : TeardownClose(tid)
    \/ TeardownStep

SpecLive ==
    /\ InitRace /\ [][NextLive]_vars
    /\ \A r \in Readers : WF_vars(ReaderStep(r))
    /\ WF_vars(TeardownStep)

(***************************************************************************)
(* Thread ids: sessions on "cpu", from the process before the first        *)
(* start(), while one thread calls getCallChain with any thread id, on     *)
(* buffers that hold no record.                                            *)
(***************************************************************************)
NextBounds ==
    \/ StartResolve(Str_cpu, 0)
    \/ StartAlloc
    \/ StartInstall
    \/ StartEnable
    \/ StartOpendir
    \/ StartReaddir
    \/ StartReturn
    \/ \E tid \in TIDs : ThreadStart(tid)
    \/ \E tid \in TIDs : ThreadEnd(tid)
    \/ Stop
    \/ \E tid \in TIDs : GetCallChainCall(1, tid, 1, 0, 0)
    \/ GetCallChainTryLock(1)
    \/ GetCallChainPage(1)
    \/ GetCallChainCursors(1)
    \/ GetCallChainScan(1)
    \/ GetCallChainAdvance(1)
    \/ GetCallChainUnlock(1)

SpecBounds == Init /\ [][NextBounds]_vars

(***************************************************************************)
(* signalHandler, one statement at a time, in a session on "cpu" or on     *)
(* "malloc" whose threads start and end and which is stopped.              *)
(***************************************************************************)
\* si_code of a SIGPROF: SI_TKILL and SI_USER of a signal sent by a process,
\* POLL_IN and POLL_HUP of a counter's overflow.
SiCodes == {-6, 0, 1, 6}

\* Values a counter or an argument register may hold.
CounterValues == {1, 2}

\* What signalHandler leaves alone, the counters' state aside.
SignalFrame ==
    UNCHANGED <<progVars, openFds, mapped, pages, sigHandler, notif, startVars,
                traced, lastOp, calls, histVars, rd, destroyer, kwrites,
                dangling>>

\* What a system call on the handle of siginfo adds to the record: the
\* call, and whether the handle was closed when it was made.
Issue(call) ==
    [sig EXCEPT !.log = Append(@, call),
                !.stale = @ \/ sig.si_fd \notin openFds]

\* SIGPROF is delivered and signalHandler is entered: for the overflow of a
\* counter that is armed, which the kernel then disables (it was enabled for
\* one notification), with the counter's handle in si_fd; or for a signal
\* sent by a process, with no handle.
SignalDeliver(si_code, si_fd) ==
    /\ ~fault /\ sigHandler /\ sig.pc \in {"idle", "returned"}
    /\ IF si_code > 0
       THEN si_fd \in enabled /\ enabled' = enabled \ {si_fd}
       ELSE si_fd = 0 /\ UNCHANGED enabled
    /\ sig' = [IdleSignal EXCEPT !.pc = "check", !.si_code = si_code,
                                 !.si_fd = si_fd]
    /\ UNCHANGED fault
    /\ SignalFrame

\* signalHandler taking every signal for an overflow
SignalCheckSkipped ==
    /\ ~fault /\ sig.pc = "check"
    /\ sig' = [sig EXCEPT !.pc = "counter"]
    /\ UNCHANGED <<enabled, fault>>
    /\ SignalFrame

\* lines 406-409: if (siginfo->si_code <= 0) return;
SignalCheck ==
    /\ ~fault /\ sig.pc = "check"
    /\ sig' = [sig EXCEPT !.pc = IF sig.si_code <= 0 THEN "returned" ELSE "counter"]
    /\ UNCHANGED <<enabled, fault>>
    /\ SignalFrame

\* lines 411-421: the counter value, from the argument register the active
\* descriptor names or from the counter itself; 1 when read() fails.
\* _event_type->counter_arg through a null _event_type is a crash.
SignalCounter ==
    /\ ~fault /\ sig.pc = "counter"
    /\ IF _event_type = NULL
       THEN fault' = TRUE /\ UNCHANGED sig
       ELSE /\ IF Entry(AVAILABLE_EVENTS, _event_type).counter_arg \in 1..4
               THEN \E c \in CounterValues :
                       sig' = [sig EXCEPT !.counter = c, !.pc = "record"]
               ELSE \E c \in CounterValues :
                       sig' = [Issue(<<"read", sig.si_fd>>) EXCEPT
                                 !.counter = IF sig.si_fd \in openFds THEN c ELSE 1,
                                 !.pc = "record"]
            /\ UNCHANGED fault
    /\ UNCHANGED enabled
    /\ SignalFrame

\* line 423: Profiler::_instance.recordSample(ucontext, counter, 0, NULL)
SignalRecord ==
    /\ ~fault /\ sig.pc = "record"
    /\ sig' = [sig EXCEPT !.log = Append(@, <<"recordSample", sig.counter, 0, NULL>>),
                          !.pc = "reset"]
    /\ UNCHANGED <<enabled, fault>>
    /\ SignalFrame

\* line 424: ioctl(siginfo->si_fd, PERF_EVENT_IOC_RESET, 0)
SignalReset ==
    /\ ~fault /\ sig.pc = "reset"
    /\ sig' = [Issue(<<"ioctl_RESET", sig.si_fd, 0>>) EXCEPT !.pc = "refresh"]
    /\ UNCHANGED <<enabled, fault>>
    /\ SignalFrame

\* line 425: ioctl(siginfo->si_fd, PERF_EVENT_IOC_REFRESH, 1), which arms
\* the counter the handle stands for, if it stands for one.
SignalRefresh ==
    /\ ~fault /\ sig.pc = "refresh"
    /\ sig' = [Issue(<<"ioctl_REFRESH", sig.si_fd, 1>>) EXCEPT !.pc = "returned"]
    /\ enabled' = IF sig.si_fd \in openFds THEN enabled \cup {sig.si_fd} ELSE enabled
    /\ UNCHANGED fault
    /\ SignalFrame

SignalEvents == {Str_cpu, Str_malloc}

\* A session started on one of the events, without counters yet.
InitSignal ==
    /\ \E event \in SignalEvents :
          LET r == forName(InitialTable, event)
          IN /\ AVAILABLE_EVENTS = r.tab
             /\ _event_type = r.ptr
             /\ _interval = Entry(r.tab, r.ptr).default_interval
             /\ active = [ptr |-> r.ptr, desc |-> Entry(r.tab, r.ptr)]
    /\ _max_events = PidMax
    /\ _events = [i \in 0..(PidMax - 1) |-> EmptySlot]
    /\ openFds = {} /\ enabled = {} /\ mapped = {}
    /\ pages = [r \in 1..MaxRegions |-> FreshPage(0)]
    /\ sigHandler = TRUE /\ notif = TRUE
    /\ pc = "idle" /\ todo = {} /\ success = FALSE /\ startRet = "OK"
    /\ traced = FALSE /\ lastOp = NoOp /\ calls = <<>> /\ fault = FALSE
    /\ listing = {} /\ enumLog = <<>>
    /\ Quiet

NextSignal ==
    \/ \E si_code \in SiCodes, si_fd \in 0..MaxFds : SignalDeliver(si_code, si_fd)
    \/ SignalCheck
    \/ SignalCounter
    \/ SignalRecord
    \/ SignalReset
    \/ SignalRefresh
    \/ \E tid \in TIDs : ThreadStart(tid)
    \/ \E tid \in TIDs : ThreadEnd(tid)
    \/ Stop

SpecSignal == InitSignal /\ [][NextSignal]_vars

(***************************************************************************)
(* Properties.                                                             *)
(***************************************************************************)
\* The names of the calls an operation made.
CallNames(log) == {log[i][1] : i \in 1..Len(log)}

\* The threads of the enumeration whose counter the kernel opened.
EnumOk == {enumLog[i][1] : i \in {j \in 1..Len(enumLog) : enumLog[j][2]}}
EnumTried == {enumLog[i][1] : i \in 1..Len(enumLog)}

StartErrors == {"Unsupported event type", "interval must be positive",
                "Perf events unavailble"}

\* C2: after the stop() of a session that start() had begun with success
\* has returned, every counter createForThread opened is closed and every
\* buffer it mapped is unmapped, whatever createForThread and
\* destroyForThread calls were made during the session.
C2_StopReleasesEverything ==
    (lastOp.op = "stop" /\ startRet = "OK") => (openFds = {} /\ mapped = {})

\* C3: once start() has returned an error no partial session is left: no
\* counter is open, the thread notifications are not enabled, and (until a
\* later start) none is opened; when resolution or validation failed,
\* createForThread was not called at all.
C3_NoPartialSession ==
    startRet \in StartErrors =>
        /\ openFds = {}
        /\ ~notif
        /\ startRet # "Perf events unavailble" => enumLog = <<>>

\* C8: createForAllThreads returns true exactly when the kernel opened a
\* counter for at least one enumerated thread, start() fails with
\* "unavailable" exactly when it opened none, every enumerated thread is
\* tried whatever happened to those before it, and a thread whose counter
\* is open counts as a success whether or not its buffer was mapped.
C8_FailuresAggregated ==
    /\ pc = "readdir" => (success <=> EnumOk # {})
    /\ (lastOp.op = "start" /\ pc = "idle"
          /\ startRet \in {"OK", "Perf events unavailble"}) =>
            /\ startRet = "OK" <=> EnumOk # {}
            /\ EnumTried = listing
            /\ Len(enumLog) = Cardinality(listing)

\* A start() has returned success although the first enumerated thread
\* failed and the one that succeeded has no buffer.
C8_Witness ==
    /\ lastOp.op = "start" /\ pc = "idle" /\ startRet = "OK"
    /\ Len(enumLog) >= 2
    /\ ~enumLog[1][2]
    /\ \E i \in 2..Len(enumLog) :
          /\ enumLog[i][2]
          /\ enumLog[i][1] < _max_events
          /\ _events[enumLog[i][1]].fd # 0
          /\ _events[enumLog[i][1]].page = NULL
    /\ \A i \in 1..Len(enumLog) :
          enumLog[i][2] => _events[enumLog[i][1]].page = NULL

\* C10: between a successful start() and stop() the active descriptor and
\* its fields stay what they were when start() returned, whatever is called
\* in between, a start() that fails included.
C10_ActiveDescriptorImmutable ==
    (active.ptr # NULL /\ pc = "idle") =>
        /\ _event_type = active.ptr
        /\ Entry(AVAILABLE_EVENTS, active.ptr) = active.desc

\* C4: destroyForThread(tid), tid below capacity, leaves the slot with
\* handle 0 and a null buffer pointer, whatever createForThread made of it
\* before; called on a slot that is already empty it closes nothing, unmaps
\* nothing and changes neither the slots nor the kernel's tables.
C4_DestroyIdempotent ==
    [][(lastOp'.op = "destroyForThread" /\ lastOp'.tid < _max_events) =>
         LET t == lastOp'.tid
         IN /\ _events'[t].fd = 0
            /\ _events'[t].page = NULL
            /\ (_events[t].fd = 0 /\ _events[t].page = NULL) =>
                  /\ CallNames(calls') \cap {"ioctl_DISABLE", "close", "munmap"} = {}
                  /\ _events' = _events
                  /\ UNCHANGED kernVars]_vars

\* destroyForThread has just emptied a slot createForThread had filled with
\* a counter and a buffer.
C4_Witness ==
    /\ lastOp.op = "destroyForThread" /\ lastOp.tid < _max_events
    /\ {"close", "munmap"} \subseteq CallNames(calls)
    /\ _events[lastOp.tid] = EmptySlot

\* C9: createForThread with tid at or beyond the capacity returns failure,
\* destroyForThread with such a tid returns, and so does createForThread
\* when the kernel opens no counter; none of the three reads or writes a
\* slot, and none creates or releases a counter or a mapping.
C9_RejectedCallsTouchNothing ==
    [][/\ (lastOp'.op = "createForThread" /\ lastOp'.tid >= _max_events) =>
             /\ ~lastOp'.ret
             /\ calls' = <<>>
             /\ _events' = _events /\ UNCHANGED kernVars
       /\ (lastOp'.op = "destroyForThread" /\ lastOp'.tid >= _max_events) =>
             /\ calls' = <<>>
             /\ _events' = _events /\ UNCHANGED kernVars
       /\ (lastOp'.op = "createForThread" /\ lastOp'.tid < _max_events
              /\ \E i \in 1..Len(calls') :
                    calls'[i][1] = "perf_event_open" /\ calls'[i][3] = -1) =>
             /\ ~lastOp'.ret
             /\ CallNames(calls') = {"perf_event_open"}
             /\ _events' = _events /\ UNCHANGED kernVars]_vars

\* createForThread has just failed to open a counter for a thread whose
\* slot holds an earlier counter and buffer.
C9_Witness ==
    /\ lastOp.op = "createForThread" /\ lastOp.tid < _max_events
    /\ ~lastOp.ret
    /\ CallNames(calls) = {"perf_event_open"}
    /\ _events[lastOp.tid].fd # 0 /\ _events[lastOp.tid].page # NULL

\* The readers between reading the buffer pointer and their last access
\* through it.
Decoding == {"cursors", "scan", "ips", "advance"}

\* The addresses and markers of the first sample among the records recs.
FirstIps(recs) ==
    LET samples == SelectSeq(recs, LAMBDA w : w.rec.type = PERF_RECORD_SAMPLE)
    IN IF samples = <<>> THEN <<>> ELSE Tail(samples[1].rec.body)

IsMarker(ip) == ip >= PERF_CONTEXT_MAX
InRange(ip, l) == ip >= l.jit_min_address /\ ip < l.jit_max_address

\* The addresses of ips before the first one inside the excluded range of
\* call l.
BeforeExcluded(ips, l) ==
    LET hits == {i \in 1..Len(ips) : ~IsMarker(ips[i]) /\ InRange(ips[i], l)}
        stop == IF hits = {} THEN Len(ips) + 1
                ELSE CHOOSE i \in hits : \A j \in hits : i <= j
    IN SelectSeq(SubSeq(ips, 1, stop - 1), LAMBDA ip : ~IsMarker(ip))

\* C1: while destroyForThread and any number of getCallChain calls run on
\* the same slot, no reader uses the buffer after it was unmapped: a reader
\* that holds the buffer pointer and has an access ahead of it finds the
\* region mapped; and a call returns as many addresses as it stored, none
\* when it found the guard taken or no buffer, and otherwise only addresses
\* the kernel had published in the sample it decoded.
C1_NoDanglingDeref ==
    /\ ~dangling
    /\ \A r \in Readers :
          /\ rd[r].pc \in Decoding => rd[r].page \in mapped
          /\ rd[r].pc = "returned" =>
                /\ rd[r].ret = Len(rd[r].callchain)
                /\ rd[r].path \in {"busy", "nopage"} => rd[r].ret = 0
                /\ \A i \in 1..Len(rd[r].callchain) :
                      \E j \in 1..Len(FirstIps(rd[r].unread)) :
                         rd[r].callchain[i] = FirstIps(rd[r].unread)[j]

\* A reader is decoding a sample while destroyForThread, which has closed
\* the counter, waits for the guard.
C1_Witness ==
    /\ destroyer.pc = "lock"
    /\ \E r \in Readers :
          /\ rd[r].pc = "ips" /\ rd[r].tid = destroyer.tid
          /\ rd[r].callchain # <<>>
          /\ _events[rd[r].tid].fd = 0

\* C5: a call returns at most max_depth addresses, none of them inside
\* [jit_min_address, jit_max_address) and none a context marker, and what
\* it returns of the sample it decoded are the addresses before the first
\* one inside the range, so none that follows it.
C5_CallChainBounded ==
    \A r \in Readers :
       rd[r].pc = "returned" =>
          LET l == rd[r]
              kept == BeforeExcluded(FirstIps(l.unread), l)
          IN /\ l.ret = Len(l.callchain)
             /\ l.ret <= l.max_depth
             /\ \A i \in 1..Len(l.callchain) :
                   ~InRange(l.callchain[i], l) /\ ~IsMarker(l.callchain[i])
             /\ l.callchain =
                   SubSeq(kept, 1, IF Len(kept) < l.max_depth THEN Len(kept)
                                   ELSE l.max_depth)

\* A call with room left has returned the first address of a sample whose
\* second address is inside the excluded range.
C5_Witness ==
    \E r \in Readers :
       /\ rd[r].pc = "returned"
       /\ LET ips == FirstIps(rd[r].unread)
          IN /\ Len(ips) = 2
             /\ ~IsMarker(ips[2]) /\ InRange(ips[2], rd[r])
             /\ rd[r].callchain = <<ips[1]>>
             /\ rd[r].ret < rd[r].max_depth

\* C6: in a mapped buffer data_tail never exceeds data_head, and no step,
\* of a reader, of the kernel or of a teardown, moves data_tail back.
C6_ReadCursorMonotonic ==
    [][\A p \in mapped :
          /\ pages[p].data_tail <= pages[p].data_head
          /\ p \in mapped' =>
                /\ pages'[p].data_tail <= pages'[p].data_head
                /\ pages'[p].data_tail >= pages[p].data_tail]_vars

\* A second call has moved data_tail on to the head it observed, past the
\* records an earlier call had released.
C6_Witness ==
    \E r \in Readers, q \in Readers :
       /\ rd[q].pc = "returned" /\ rd[q].path = "decoded" /\ rd[q].unread # <<>>
       /\ rd[r].pc = "unlock" /\ rd[r].unread # <<>>
       /\ rd[r].page \in mapped
       /\ pages[rd[r].page].data_tail = rd[r].head
       /\ rd[r].unread[1].at > rd[q].unread[1].at

\* C7: a reader at the guard can always take its step; when the guard is
\* taken that step returns 0 and changes neither the slots nor the kernel's
\* tables nor any buffer; and a reader that found a null buffer pointer
\* goes to the release of the guard and returns 0 without a write to any
\* buffer, the handle and the buffer pointer of the slot as they were.
C7_NeverWaits ==
    [][\A r \in Readers :
          /\ rd[r].pc = "tryLock" => ENABLED GetCallChainTryLock(r)
          /\ (rd[r].pc = "tryLock" /\ rd'[r] # rd[r]
                /\ _events[rd[r].tid].lock # 0) =>
                   /\ rd'[r].pc = "returned" /\ rd'[r].ret = 0
                   /\ rd'[r].callchain = <<>>
                   /\ _events' = _events
                   /\ UNCHANGED kernVars
          /\ (rd[r].pc = "page" /\ rd'[r] # rd[r]
                /\ _events[rd[r].tid].page = NULL) =>
                   /\ rd'[r].pc = "unlock" /\ rd'[r].depth = 0
                   /\ _events' = _events
                   /\ UNCHANGED kernVars
          /\ (rd[r].pc = "unlock" /\ rd'[r] # rd[r]
                /\ rd[r].path = "nopage") =>
                   /\ rd'[r].pc = "returned" /\ rd'[r].ret = 0
                   /\ rd'[r].callchain = <<>>
                   /\ _events' = [_events EXCEPT ![rd[r].tid].lock = 0]
                   /\ UNCHANGED kernVars]_vars

\* A reader has returned 0 because a teardown held the guard, and the
\* teardown still holds it.
C7_Witness ==
    /\ destroyer.pc \in {"munmap", "clear", "unlock"}
    /\ \E r \in Readers :
          /\ rd[r].pc = "returned" /\ rd[r].path = "busy" /\ rd[r].ret = 0
          /\ rd[r].tid = destroyer.tid

\* C11: every name getAvailableEvents returns, the terminator aside, is
\* resolved by forName to a descriptor, whatever was resolved before.
C11_ListedNamesResolve ==
    \A i \in 1..Len(getAvailableEvents(AVAILABLE_EVENTS)) :
       LET name == getAvailableEvents(AVAILABLE_EVENTS)[i]
       IN name # NullName => forName(AVAILABLE_EVENTS, name).ptr # NULL

\* The descriptor forName returns for a name in the present table, and the
\* table it leaves.
Resolve(name) ==
    LET r == forName(AVAILABLE_EVENTS, name)
    IN [ptr |-> r.ptr, tab |-> r.tab,
        desc |-> IF r.ptr = NULL THEN NULL ELSE Entry(r.tab, r.ptr)]

\* C14: a breakpoint name symbol-or-0xaddress[+offset][/length][:access],
\* with or without the mem: prefix, resolves to a breakpoint at the address
\* of the symbol plus the offset; its access is the one given, and without
\* one read-write under mem: and execution otherwise; its length is the one
\* given, and without one the width of a pointer for access x and for a
\* bare name, 1 otherwise; a symbol that does not resolve gives no
\* descriptor and leaves the table alone; and the counter argument is not 0
\* only for an execution breakpoint on a known function.
C14_BreakpointParsing ==
    \A pre \in Prefixes, sym \in Symbols, off \in Offsets, len \in Lengths,
       acc \in Accesses :
       LET r == Resolve(pre \o sym.text \o off.text \o len.text \o acc.text)
           access == IF acc.val # 0 THEN acc.val
                     ELSE IF pre = <<>> THEN HW_BREAKPOINT_X ELSE HW_BREAKPOINT_RW
           known == {KNOWN_FUNCTIONS[i].name : i \in 1..Len(KNOWN_FUNCTIONS)}
       IN IF sym.addr = 0
          THEN r.ptr = NULL /\ r.tab = AVAILABLE_EVENTS
          ELSE /\ r.ptr # NULL
               /\ r.desc.type = PERF_TYPE_BREAKPOINT
               /\ r.desc.config = sym.addr + off.val
               /\ r.desc.bp_type = access
               /\ r.desc.bp_len = IF len.val # 0 THEN len.val
                                  ELSE IF acc.val = HW_BREAKPOINT_X \/ pre = <<>>
                                  THEN SizeofLong ELSE 1
               /\ r.desc.counter_arg # 0 <=>
                     (access = HW_BREAKPOINT_X /\ sym.text \in known)

\* start("foo+0x10/4:w", -1) has returned after resolving the name: the
\* active descriptor is a write breakpoint of length 4 at foo + 0x10.
C14_Witness ==
    /\ startRet = "interval must be positive"
    /\ _event_type # NULL
    /\ LET d == Entry(AVAILABLE_EVENTS, _event_type)
       IN /\ d.type = PERF_TYPE_BREAKPOINT
          /\ d.config = dlsym(Str_foo) + 16
          /\ d.bp_len = 4
          /\ d.bp_type = HW_BREAKPOINT_W
          /\ d.counter_arg = 0

\* C13: no step arms a counter (ioctl RESET and REFRESH of createForThread,
\* reached from the enumeration of start() or from a thread-start
\* notification) while the overflow handler is not installed.
C13_HandlerBeforeArming ==
    [][(enabled' \ enabled # {}) => sigHandler]_vars

\* start() is enumerating the threads and has created no counter yet, and a
\* thread-start notification has just run createForThread and a counter is
\* armed.
C13_Witness ==
    /\ pc = "readdir"
    /\ lastOp.op = "createForThread"
    /\ enabled # {}
    /\ enumLog = <<>>
    /\ sigHandler

\* The samples among the records recs.
Samples(recs) == SelectSeq(recs, LAMBDA w : w.rec.type = PERF_RECORD_SAMPLE)

\* The byte after record w of the buffer.
EndOf(w) == w.at + SizeofU64 * Len(Encode(w.rec))

\* The first n elements of s, or all of s.
Take(s, n) == SubSeq(s, 1, IF Len(s) < n THEN Len(s) ELSE n)

\* C15: a call that took the guard and found the buffer returns, whatever
\* records of other types come first, the addresses of the first sample at
\* or after the read cursor (up to max_depth) and of no other sample, and at
\* its return the read cursor is the write cursor it observed at its start:
\* the end of the last record that was unread then, whether a sample was
\* among them or not, and whatever the kernel has published since.
C15_FirstSampleThenRelease ==
    [][(rd[1].pc = "unlock" /\ rd'[1].pc = "returned" /\ rd[1].path = "decoded") =>
          LET l == rd'[1]
              pg == pages'[_events[l.tid].page]
          IN /\ pg.data_tail = rd[1].head
             /\ l.unread # <<>> => pg.data_tail = EndOf(l.unread[Len(l.unread)])
             /\ l.unread = <<>> => l.callchain = <<>>
             /\ l.callchain = Take(FirstIps(l.unread), l.max_depth)
             /\ Between(pg, pg.data_tail, pg.data_head) =
                   SelectSeq(pg.written, LAMBDA w : w.at >= rd[1].head)]_vars

\* A call has returned the addresses of a sample that came after a record of
\* another type, and has released both records.
C15_Witness ==
    /\ rd[1].pc = "returned" /\ rd[1].path = "decoded"
    /\ Len(rd[1].unread) = 2
    /\ rd[1].unread[1].rec.type # PERF_RECORD_SAMPLE
    /\ rd[1].callchain = <<32>>
    /\ LET pg == pages[_events[0].page]
       IN pg.data_tail = EndOf(rd[1].unread[2])

\* C16: when more than one sample was unread, the call chain returned is
\* that of the sample written last.
C16_LatestOnly ==
    (rd[1].pc = "returned" /\ rd[1].path = "decoded" /\ Len(Samples(rd[1].unread)) > 1) =>
       LET samples == Samples(rd[1].unread)
           latest == Tail(samples[Len(samples)].rec.body)
       IN rd[1].callchain = Take(latest, rd[1].max_depth)

\* The readers of slot tid between tryLock() and unlock().
ReadersInside(tid) ==
    {r \in Readers : rd[r].tid = tid
                     /\ rd[r].pc \in {"page", "cursors", "scan", "ips", "advance", "unlock"}}

\* The teardowns of slot tid between lock() and unlock(): none or one.
TeardownsInside(tid) ==
    IF destroyer.tid = tid /\ destroyer.pc \in {"munmap", "clear", "unlock"}
    THEN 1 ELSE 0

\* C18: whatever createForThread, destroyForThread and getCallChain do on a
\* slot, at most one thread is between acquiring and releasing its guard,
\* the guard is held while one is, and the buffer a reader inside is using
\* is still the slot's buffer and still mapped.
C18_GuardExcludes ==
    \A tid \in DOMAIN _events :
       /\ Cardinality(ReadersInside(tid)) + TeardownsInside(tid) <= 1
       /\ Cardinality(ReadersInside(tid)) + TeardownsInside(tid) = 1 =>
             _events[tid].lock # 0
       /\ \A r \in ReadersInside(tid) :
             rd[r].pc \in Decoding =>
                rd[r].page \in mapped /\ rd[r].page = _events[tid].page

\* destroyForThread has done what it does to its slot and holds no guard.
TornDown ==
    /\ destroyer.pc = "idle"
    /\ _events[destroyer.tid].fd = 0
    /\ _events[destroyer.tid].page = NULL
    /\ ReadersInside(destroyer.tid) = {} => _events[destroyer.tid].lock = 0

\* C17: every destroyForThread that has started on a slot completes, with
\* the handle 0, the buffer pointer null and the guard released, whatever
\* the readers of the slot do, the signal handler of the tearing-down thread
\* among them; and every call of getCallChain returns, without the guard.
C17_TeardownCompletes ==
    /\ (destroyer.pc # "idle") ~> TornDown
    /\ \A r \in Readers : (rd[r].pc \notin {"idle", "returned"}) ~> (rd[r].pc = "returned")
    /\ [](\A tid \in DOMAIN _events :
             (ReadersInside(tid) = {} /\ TeardownsInside(tid) = 0) =>
                _events[tid].lock = 0)

\* destroyForThread waits for the guard that another thread holds inside
\* getCallChain, and its own signal handler has entered getCallChain.
C17_Witness ==
    /\ destroyer.pc = "lock"
    /\ \E r \in Readers \ {Handler} :
          rd[r].tid = destroyer.tid /\ rd[r].pc \in Decoding
    /\ rd[Handler].pc = "tryLock" /\ rd[Handler].tid = destroyer.tid

\* C20: no call of getCallChain takes a slot outside the array: called with
\* a thread id at or beyond the capacity, or before any start() allocated
\* the array, it touches no slot.
C20_SlotIndexInside ==
    \A r \in Readers : rd[r].path # "outside"

\* The calls of one invocation of signalHandler for the overflow of the
\* counter fd: the counter read or not, then one sample without call chain,
\* then the reset and the refresh for one notification.
HandlerCalls(fd, counter) ==
    LET rearm == << <<"recordSample", counter, 0, NULL>>,
                    <<"ioctl_RESET", fd, 0>>, <<"ioctl_REFRESH", fd, 1>> >>
    IN {rearm, << <<"read", fd>> >> \o rearm}

\* C12: an invocation for a signal with si_code <= 0 makes no call at all,
\* so it records no sample and does not touch a counter; any other hands
\* one sample with no call chain to recordSample and then resets the
\* counter of si_fd and refreshes it for one notification, in that order;
\* and no step of the handler changes a slot, its guard included, opens,
\* closes, maps or unmaps anything, or arms a counter before the sample was
\* handed over.
C12_HandlerContract ==
    /\ [](sig.pc = "returned" =>
            IF sig.si_code <= 0 THEN sig.log = <<>>
            ELSE sig.log \in HandlerCalls(sig.si_fd, sig.counter))
    /\ [][(sig.pc \notin {"idle", "returned"} /\ sig' # sig) =>
             /\ UNCHANGED <<_events, openFds, mapped, pages>>
             /\ enabled' # enabled =>
                   /\ sig.si_code > 0
                   /\ \E i \in 1..Len(sig.log) : sig.log[i][1] = "recordSample"
                   /\ enabled' = enabled \cup {sig.si_fd}]_vars

\* The handler has returned from an overflow: it has read the counter,
\* handed the sample over and armed the counter again, which is still open.
C12_Witness ==
    /\ sig.pc = "returned" /\ sig.si_code > 0
    /\ Len(sig.log) = 4 /\ ~sig.stale
    /\ sig.si_fd \in enabled

\* C19: the handler makes no call on a handle that is closed, and no
\* counter that was closed is armed.
C19_NoUseAfterClose ==
    /\ ~sig.stale
    /\ enabled \subseteq openFds

=============================================================================
